---- MODULE Spec2Model ----
(***************************************************************************)
(* Model of the directory change monitor of Utilities_Python               *)
(* (src/src/fileproc.py, class monitoring) and of the reference file it    *)
(* keeps: one row per monitored path with the time of the last review.     *)
(*                                                                         *)
(* Time is counted in clock ticks, TicksPerSec ticks to the second; the    *)
(* text '%Y-%m-%d %H:%M:%S' of a time is represented by its whole second   *)
(* count, so formatting drops the sub-second part as strftime does.        *)
(* A path is the sequence of its characters, so that `ref_delim in path`   *)
(* is a real containment test.                                             *)
(***************************************************************************)
EXTENDS Integers, Sequences, FiniteSets, TLC

\* ---------------------------------------------------------------- bounds
\* last clock tick the model lets the clock reach
MaxTime == 3
\* the audit log takes no further modified_files call once it holds this many
\* records
MaxLog == 3
\* run_job is followed for this many polls of a job that keeps running
MaxPolls == 4
\* SendTelegramMessage is followed until this many requests have been posted
MaxPosts == 2
\* run_script is followed until this many commands have been executed
MaxRuns == 2
\* clock resolution: ticks in one second
TicksPerSec == 2

\* ------------------------------------------------------ program constants
key_column == "Path"
dt_column == "LastMonitorTime"
VALID_DELIMS == {",", "\t", "|"}
\* dt.datetime(1970, 1, 1)
Epoch == 0

\* ------------------------------------------------------------ environment
Monitors == {"m1", "m2"}

PA == <<"a">>
PB == <<"b">>
PD == <<"d", ",", "\t", "|">>
PN == <<"n", ",", "\t", "|">>
PX == <<"x">>
PF == <<"f">>
Paths == {PA, PB, PD, PN, PX, PF}

\* the subdirectory "sub" of the directory PA
PS == PA \o <<"/", "sub">>

\* the directory reformat_json works in
PJ == <<"j">>

\* the working directory of the process at its start, and two directories
\* that hold scripts
PH == <<"h">>
PS1 == <<"s1">>
PS2 == <<"s2">>

\* os.path.isdir(path)
IsDir(p) == p \in {PA, PB, PD, PS, PJ, PH, PS1, PS2}

\* `ref_delim in path`
Contains(p, d) == \E i \in 1..Len(p) : p[i] = d

\* os.listdir(path): the entries directly under a directory, in listing order
ListDir(p) == IF p = PA THEN <<"f1", "sub", "f2">>
              ELSE IF p = PS THEN <<"f3">>
              ELSE <<>>

\* os.path.isfile(os.path.join(path, file))
IsFile(p, f) == (p = PA /\ f \in {"f1", "f2"}) \/ (p = PS /\ f = "f3")

\* the regular files: "f1" and "f2" directly under PA, "f3" under PA/sub
Files == {"f1", "f2", "f3"}

\* the files that are written while the monitors run
Touched == {"f1"}

\* the config_file argument of the constructor: None, an existing regular
\* configuration file, an existing directory, or a name that does not exist
ConfigArgs == {"None", "file", "dir", "absent"}

\* ----------------------------------------------------------- time as text
\* a formatting that rounds to the next second instead of dropping the
\* sub-second part
StrftimeRoundUp(t) ==
    [kind |-> "ts", sec |-> (t + TicksPerSec - 1) \div TicksPerSec]

\* dt.datetime.strftime(t, '%Y-%m-%d %H:%M:%S')
Strftime(t) == [kind |-> "ts", sec |-> t \div TicksPerSec]

\* whether dt.datetime.strptime(s, dt_format) succeeds: None raises
\* TypeError, any other text ValueError
StrptimeOk(s) == s.kind = "ts"

\* dt.datetime.strptime(s, '%Y-%m-%d %H:%M:%S')
Strptime(s) == s.sec * TicksPerSec

NoneStr == [kind |-> "None", sec |-> 0]
BadStr == [kind |-> "text", sec |-> 0]
DtStrings == {Strftime(t) : t \in 0..MaxTime} \cup {NoneStr, BadStr}

\* ------------------------------------------------------ the reference file
\* A file is [exists, hdr, rows]: hdr is the header line as a sequence of
\* tokens (<<>> when the file has no line at all), rows the data lines.
NoFile == [exists |-> FALSE, hdr |-> <<>>, rows |-> <<>>]
EmptyFile == [exists |-> TRUE, hdr |-> <<>>, rows |-> <<>>]

\* header_row = f'{key_column}{self.ref_delim}{dt_column}{NL}'
HeaderRow(d) == <<key_column, d, dt_column>>

RECURSIVE SplitComma(_)
\* csv.reader with the default dialect: cut a line at every ","
SplitComma(line) ==
    IF line = <<>> THEN << <<>> >>
    ELSE LET rest == SplitComma(Tail(line))
         IN  IF Head(line) = ","
             THEN << <<>> >> \o rest
             ELSE << <<Head(line)>> \o Head(rest) >> \o Tail(rest)

\* csv.DictReader(f).fieldnames: the first line cut at ","; None (here <<>>)
\* for a file without any line
FieldNames(file) == IF file.hdr = <<>> THEN <<>> ELSE SplitComma(file.hdr)

RECURSIVE JoinComma(_)
\* csv.DictWriter.writeheader(): the field names joined by ","
JoinComma(fields) ==
    IF fields = <<>> THEN <<>>
    ELSE IF Len(fields) = 1 THEN Head(fields)
    ELSE Head(fields) \o <<",">> \o JoinComma(Tail(fields))

HasField(fields, name) == \E i \in 1..Len(fields) : fields[i] = <<name>>

HasRow(rows, p) == \E i \in 1..Len(rows) : rows[i].Path = p

\* index of the first row of a path
FirstRow(rows, p) == CHOOSE i \in 1..Len(rows) :
    rows[i].Path = p /\ \A j \in 1..(i-1) : rows[j].Path # p

\* the error the 'r' branch raises on a file, "none" when it raises none
ReadErr(file, p) ==
    IF file.rows # <<>> /\ ~HasField(FieldNames(file), key_column) THEN "KeyError"
    ELSE IF HasRow(file.rows, p)
            /\ ~StrptimeOk(file.rows[FirstRow(file.rows, p)].LastMonitorTime)
         THEN "ValueError"
    ELSE "none"

\* a read that keeps the time of whatever row it met first when no row matches
ReadValFirstRow(file, p) ==
    IF HasRow(file.rows, p)
    THEN Strptime(file.rows[FirstRow(file.rows, p)].LastMonitorTime)
    ELSE IF file.rows # <<>> THEN Strptime(file.rows[1].LastMonitorTime)
    ELSE Epoch

\* the value the 'r' branch returns: the time of the first row of the path,
\* the epoch when no row matches
ReadVal(file, p) ==
    IF HasRow(file.rows, p)
    THEN Strptime(file.rows[FirstRow(file.rows, p)].LastMonitorTime)
    ELSE Epoch

\* a rewrite that forgets to copy the rows of the other paths when it adds one
WriteRowsOnlyOwn(rows, p, tv) ==
    IF HasRow(rows, p)
    THEN [i \in 1..Len(rows) |->
            IF rows[i].Path = p
            THEN [rows[i] EXCEPT !.LastMonitorTime = tv]
            ELSE rows[i]]
    ELSE <<[Path |-> p, LastMonitorTime |-> tv]>>

\* a rewrite that stamps every row, not only the rows of the path
WriteRowsStampAll(rows, p, tv) ==
    LET upd == [i \in 1..Len(rows) |-> [rows[i] EXCEPT !.LastMonitorTime = tv]]
    IN  IF HasRow(rows, p) THEN upd
        ELSE Append(upd, [Path |-> p, LastMonitorTime |-> tv])

\* a rewrite that adds its row whether or not a row matched
WriteRowsAlwaysAppend(rows, p, tv) ==
    Append([i \in 1..Len(rows) |->
              IF rows[i].Path = p
              THEN [rows[i] EXCEPT !.LastMonitorTime = tv]
              ELSE rows[i]],
           [Path |-> p, LastMonitorTime |-> tv])

\* the file rewritten by the 'w' branch: every row of the path gets the new
\* time text, the other rows are copied, and a row is added when none matched
WriteRows(rows, p, tv) ==
    LET upd == [i \in 1..Len(rows) |->
                  IF rows[i].Path = p
                  THEN [rows[i] EXCEPT !.LastMonitorTime = tv]
                  ELSE rows[i]]
    IN  IF HasRow(rows, p) THEN upd
        ELSE Append(upd, [Path |-> p, LastMonitorTime |-> tv])

\* the error the 'w' branch raises while it fills the temporary file
WriteErr(file) ==
    LET fields == FieldNames(file)
    IN  IF fields = <<>> THEN "TypeError"
        ELSE IF file.rows # <<>> /\ ~HasField(fields, key_column) THEN "KeyError"
        ELSE IF ~(HasField(fields, key_column) /\ HasField(fields, dt_column))
             THEN "ValueError"
        ELSE "none"

\* the temporary file the 'w' branch has filled when it raises nothing
WriteFile(file, p, tv) ==
    [exists |-> TRUE, hdr |-> JoinComma(FieldNames(file)),
     rows |-> WriteRows(file.rows, p, tv)]

\* a validation that looks for the delimiter before it looks for the directory
ValidateDelimFirst(p, d) ==
    IF Contains(p, d) THEN "RuntimeError"
    ELSE IF ~IsDir(p) THEN "FileNotFoundError"
    ELSE "none"

\* monitoring._validate: the error it raises, "none" when the path is valid
Validate(p, d) ==
    IF ~IsDir(p) THEN "FileNotFoundError"
    ELSE IF Contains(p, d) THEN "RuntimeError"
    ELSE "none"

\* monitoring.__init__ up to its return or its first exception
InitOutcome(file, p, cfg, d) ==
    IF cfg \in {"file", "absent"}
    THEN [err |-> "FileNotFoundError", at |-> "config", read |-> FALSE, val |-> Epoch]
    ELSE IF cfg = "dir"
    THEN [err |-> "FileNotFoundError", at |-> "config", read |-> FALSE, val |-> Epoch]
    ELSE IF ~file.exists
    THEN [err |-> "AttributeError", at |-> "load", read |-> FALSE, val |-> Epoch]
    ELSE IF ReadErr(file, p) # "none"
    THEN [err |-> ReadErr(file, p), at |-> "load", read |-> TRUE, val |-> Epoch]
    ELSE IF Validate(p, d) # "none"
    THEN [err |-> Validate(p, d), at |-> "validate", read |-> TRUE, val |-> ReadVal(file, p)]
    ELSE [err |-> "none", at |-> "none", read |-> TRUE, val |-> ReadVal(file, p)]

\* shutil.copyfile has written the first k lines of src into the opened
\* (and so emptied) file: the header line, then the rows in order
WriteLine(file, k, src) ==
    IF k = 0 THEN [file EXCEPT !.hdr = src.hdr]
    ELSE [file EXCEPT !.rows = Append(file.rows, src.rows[k])]

VARIABLES now, refDelim, sameFs, store, mon, mtime, last, orphans, log,
          job, scr, jsn, tg, sh

\* the state of the directory monitor and the state of the other utilities
fpVars == <<now, refDelim, sameFs, store, mon, mtime, last, orphans, log>>
toolVars == <<job, scr, jsn, tg, sh>>

vars == <<fpVars, toolVars>>

NoMon == [status |-> "none", path |-> PX, cutoff |-> Epoch, manual |-> FALSE,
          pc |-> "idle", wl |-> FALSE, mods |-> <<>>,
          base |-> NoFile, tmp |-> NoFile, cur_dt |-> 0, copied |-> 0,
          pre |-> NoFile]

NoLast == [op |-> "none", m |-> "m1", path |-> PX, cfg |-> "None",
           dts |-> NoneStr, err |-> "none", at |-> "none", read |-> FALSE,
           val |-> Epoch, done |-> TRUE, ret |-> <<>>, again |-> FALSE,
           prev |-> <<>>, dirty |-> FALSE, base |-> NoFile, auto |-> FALSE,
           fresh |-> FALSE, wl |-> FALSE, late |-> {}, was |-> {}, hit |-> {}]

\* the reference file as lines 273-275 write it
HeaderOnly(d) == [exists |-> TRUE, hdr |-> HeaderRow(d), rows |-> <<>>]

\* the SQL Server jobs a caller names
Jobs == {"j1", "j2"}

\* db: no object built yet, no job running on the server
NoJob == [engine |-> FALSE, srv |-> [j \in Jobs |-> "idle"], pc |-> "idle",
          name |-> "j1", arg |-> "False",
          wait |-> FALSE, started |-> FALSE, is_running |-> FALSE,
          polled |-> <<>>, ret |-> "none", err |-> "none"]

\* the databases a caller names
Databases == {<<"d1">>, <<"d2">>}

\* line 205: the number of failed mkdir attempts after which the loop gives up
MaxMkdir == 10

\* r.returncode of a command that was not run
NoCode == -1

\* script_objects: no call made yet, no output directory under the root
NoScr == [dirs |-> {}, pc |-> "idle", op |-> "none", root |-> PX,
          database |-> <<"d1">>, out |-> <<>>, removed |-> FALSE, ct |-> 0,
          tries |-> 0, made |-> FALSE, ran |-> 0, err |-> "none",
          ret |-> NoCode]

\* file names under PJ, as the pieces the code tells apart
JA == <<"a", ".json">>
JB == <<"b", ".json">>
JBad == <<"bad", ".json">>
JT == <<"n", ".txt">>
JX == <<"x", ".json">>
name_append == "_reformat"
JAR == <<"a", name_append, ".json">>
JBR == <<"b", name_append, ".json">>

\* os.listdir(PJ): the order in which the names are listed
JsonOrder == <<JA, JAR, JBad, JB, JBR, JT>>
JsonNames == {JsonOrder[i] : i \in 1..Len(JsonOrder)}

\* the files that hold a text json.load can parse
ValidJson(f) == f \in {JA, JB, JAR, JBR}

\* the files argument: None, a value that is neither a string nor a list, a
\* single name, or a list of names
JsonArgs ==
    {[kind |-> "None", v |-> <<>>], [kind |-> "other", v |-> <<>>],
     [kind |-> "str", v |-> <<JA>>], [kind |-> "str", v |-> <<JX>>],
     [kind |-> "list", v |-> <<>>], [kind |-> "list", v |-> <<JA, JB>>],
     [kind |-> "list", v |-> <<JA, JX>>], [kind |-> "list", v |-> <<JX, JA>>]}

\* the directory under PJ and the last call of reformat_json
NoJsn == [files |-> {JA, JT}, op |-> "none", path |-> PJ,
          arg |-> [kind |-> "None", v |-> <<>>], err |-> "none", ret |-> <<>>,
          wrote |-> {}, before |-> {}, again |-> FALSE, prevErr |-> "none",
          dirty |-> FALSE]
\* notifications: both environment variables set, nothing posted, no call
NoTg == [key |-> TRUE, chat |-> TRUE, sent |-> <<>>, op |-> "none",
         arg |-> "None", hadKey |-> FALSE, hadChat |-> FALSE, before |-> 0,
         ret |-> "none", err |-> "none"]
\* cmd: the process is in its start directory and has executed nothing
NoSh == [cwd |-> PH, ran |-> <<>>, pc |-> "idle", op |-> "none",
         prog |-> "None", path |-> PH, name |-> "run.py", par |-> "None",
         probes |-> <<>>, cwd0 |-> PH, ran0 |-> 0, text |-> <<>>,
         err |-> "none", ret |-> 0]

\* the other utilities before their first call
ToolsInit ==
    /\ job = NoJob
    /\ scr = NoScr
    /\ jsn = NoJsn
    /\ tg = NoTg
    /\ sh = NoSh

Init ==
    /\ now = 1
    /\ refDelim \in VALID_DELIMS
    /\ sameFs \in BOOLEAN
    /\ \/ store = HeaderOnly(refDelim)
       \/ store = NoFile
    /\ mon = [m \in Monitors |-> NoMon]
    /\ mtime = [f \in Files |-> 1]
    /\ last = NoLast
    /\ orphans = {}
    /\ log = <<>>
    /\ ToolsInit

\* the state in which the other utilities are used: no Monitor is built
InitTools ==
    /\ now = 1
    /\ refDelim = ","
    /\ sameFs = TRUE
    /\ store = HeaderOnly(refDelim)
    /\ mon = [m \in Monitors |-> NoMon]
    /\ mtime = [f \in Files |-> 1]
    /\ last = NoLast
    /\ orphans = {}
    /\ log = <<>>
    /\ ToolsInit

Idle(m) == mon[m].pc = "idle"

\* dt.datetime.now() moves on
Tick ==
    /\ now < MaxTime
    /\ now' = now + 1
    /\ UNCHANGED <<refDelim, sameFs, store, mon, mtime, last,
                   orphans, log, toolVars>>

\* an automatic modified_files call has listed the directory and has not
\* returned yet
InAutoScan == last.op = "modified_files" /\ ~last.done /\ last.auto

\* a file of the watched directory is written: its modification time is now
Touch(f) ==
    /\ mtime[f] # now
    /\ mtime' = [mtime EXCEPT ![f] = now]
    /\ last' = [last EXCEPT !.dirty = TRUE,
                            !.late = IF InAutoScan THEN @ \cup {f} ELSE @ \ {f},
                            !.was = @ \ {f}, !.hit = @ \ {f}]
    /\ UNCHANGED <<now, refDelim, sameFs, store, mon, orphans, log, toolVars>>

\* the call before this one was an automatic modified_files call on path p
\* that returned, and no file has been written since it began
AfterScanOf(p) ==
    /\ last.op = "modified_files"
    /\ last.path = p
    /\ last.auto
    /\ last.done
    /\ last.err = "none"
    /\ ~last.dirty

\* the call before this one was an automatic modified_files call on path p
\* that returned
AfterAutoScan(p) ==
    /\ last.op = "modified_files"
    /\ last.path = p
    /\ last.auto
    /\ last.done
    /\ last.err = "none"

\* the files written during that call that it returned all the same
LateHits == {f \in last.late : \E i \in 1..Len(last.ret) : last.ret[i] = f}

\* a constructor that does not load the stored time and starts from the epoch
ConstructFromEpoch(m, p, cfg) ==
    /\ Idle(m)
    /\ LET out == InitOutcome(store, p, cfg, refDelim)
           fresh == out.err = "none" /\ AfterScanOf(p)
           next == out.err = "none" /\ AfterAutoScan(p)
       IN  /\ last' = [op |-> "init", m |-> m, path |-> p, cfg |-> cfg,
                       dts |-> NoneStr, err |-> out.err, at |-> out.at,
                       read |-> out.read, val |-> out.val, done |-> TRUE,
                       ret |-> <<>>, again |-> FALSE,
                       prev |-> IF fresh THEN last.ret ELSE <<>>,
                       dirty |-> FALSE, base |-> NoFile, auto |-> FALSE,
                       fresh |-> fresh, wl |-> FALSE, late |-> {},
                       was |-> IF next THEN last.late ELSE {},
                       hit |-> IF next THEN LateHits ELSE {}]
           /\ mon' = IF out.err = "none"
                     THEN [mon EXCEPT ![m] =
                             [NoMon EXCEPT !.status = "live", !.path = p,
                                           !.cutoff = Epoch]]
                     ELSE mon
    /\ UNCHANGED <<now, refDelim, sameFs, store, mtime, orphans, log, toolVars>>

\* monitoring(path, config_file)
Construct(m, p, cfg) ==
    /\ Idle(m)
    /\ LET out == InitOutcome(store, p, cfg, refDelim)
           fresh == out.err = "none" /\ AfterScanOf(p)
           next == out.err = "none" /\ AfterAutoScan(p)
       IN  /\ last' = [op |-> "init", m |-> m, path |-> p, cfg |-> cfg,
                       dts |-> NoneStr, err |-> out.err, at |-> out.at,
                       read |-> out.read, val |-> out.val, done |-> TRUE,
                       ret |-> <<>>, again |-> FALSE,
                       prev |-> IF fresh THEN last.ret ELSE <<>>,
                       dirty |-> FALSE, base |-> NoFile, auto |-> FALSE,
                       fresh |-> fresh, wl |-> FALSE, late |-> {},
                       was |-> IF next THEN last.late ELSE {},
                       hit |-> IF next THEN LateHits ELSE {}]
           /\ mon' = IF out.err = "none"
                     THEN [mon EXCEPT ![m] =
                             [NoMon EXCEPT !.status = "live", !.path = p,
                                           !.cutoff = out.val]]
                     ELSE mon
    /\ UNCHANGED <<now, refDelim, sameFs, store, mtime, orphans, log, toolVars>>

\* monitoring.change_time(dt_string)
ChangeTime(m, s) ==
    /\ mon[m].status = "live"
    /\ Idle(m)
    /\ LET p == mon[m].path
           file == IF store.exists THEN store ELSE HeaderOnly(refDelim)
           parsed == StrptimeOk(s)
           err == IF parsed THEN "none" ELSE ReadErr(file, p)
           val == IF parsed THEN Strptime(s) ELSE ReadVal(file, p)
       IN  /\ store' = IF parsed THEN store ELSE file
           /\ last' = [op |-> "change_time", m |-> m, path |-> p, cfg |-> "None",
                       dts |-> s, err |-> err,
                       at |-> IF err = "none" THEN "none" ELSE "load",
                       read |-> ~parsed,
                       val |-> IF err = "none" THEN val ELSE Epoch,
                       done |-> TRUE, ret |-> <<>>, again |-> FALSE,
                       prev |-> <<>>, dirty |-> FALSE, base |-> NoFile,
                       auto |-> FALSE, fresh |-> FALSE, wl |-> FALSE,
                       late |-> {}, was |-> {}, hit |-> {}]
           /\ mon' = IF err = "none"
                     THEN [mon EXCEPT ![m].cutoff = val, ![m].manual = TRUE]
                     ELSE mon
    /\ UNCHANGED <<now, refDelim, sameFs, mtime, orphans, log, toolVars>>

\* a comparison that also takes a file whose time equals the cutoff
ModFilesNotStrict(p, cutoff, mt) ==
    SelectSeq(ListDir(p), LAMBDA f : IsFile(p, f) /\ mt[f] >= cutoff)

\* the files of the listing that are regular and newer than the cutoff
ModFiles(p, cutoff, mt) ==
    SelectSeq(ListDir(p), LAMBDA f : IsFile(p, f) /\ mt[f] > cutoff)

\* the call before this one was a modified_files call of the same Monitor
\* that returned, and no file has been written since it began
Returned(m) ==
    /\ last.op = "modified_files"
    /\ last.m = m
    /\ last.done
    /\ last.err = "none"
    /\ ~last.dirty

\* the call before this one built this Monitor
JustBuilt(m) == last.op = "init" /\ last.m = m /\ last.err = "none"

\* the call before this one built this Monitor right after an automatic scan
\* of its path, and no file has been written since that scan began
NewlyBuilt(m) ==
    /\ last.op = "init"
    /\ last.m = m
    /\ last.err = "none"
    /\ last.fresh
    /\ ~last.dirty

\* a scan that goes on to save whether or not the cutoff was set by hand
ScanAlwaysSave(m, wl) ==
    /\ mon[m].status = "live"
    /\ Idle(m)
    /\ mon' = [mon EXCEPT ![m].wl = wl,
                          ![m].mods = ModFiles(mon[m].path, mon[m].cutoff, mtime),
                          ![m].pc = "save"]
    /\ last' = [NoLast EXCEPT !.op = "modified_files", !.m = m,
                              !.path = mon[m].path, !.done = FALSE,
                              !.again = Returned(m),
                              !.fresh = NewlyBuilt(m),
                              !.prev = IF NewlyBuilt(m) THEN last.prev
                                       ELSE last.ret,
                              !.auto = ~mon[m].manual, !.wl = wl,
                              !.was = IF JustBuilt(m) THEN last.was ELSE {},
                              !.hit = IF JustBuilt(m) THEN last.hit ELSE {}]
    /\ UNCHANGED <<now, refDelim, sameFs, store, mtime, orphans, log, toolVars>>

\* modified_files, lines 341-351: list the directory and compare the times
Scan(m, wl) ==
    /\ mon[m].status = "live"
    /\ Idle(m)
    /\ mon' = [mon EXCEPT ![m].wl = wl,
                          ![m].mods = ModFiles(mon[m].path, mon[m].cutoff, mtime),
                          ![m].pc = IF mon[m].manual THEN "log" ELSE "save"]
    /\ last' = [NoLast EXCEPT !.op = "modified_files", !.m = m,
                              !.path = mon[m].path, !.done = FALSE,
                              !.again = Returned(m),
                              !.fresh = NewlyBuilt(m),
                              !.prev = IF NewlyBuilt(m) THEN last.prev
                                       ELSE last.ret,
                              !.auto = ~mon[m].manual, !.wl = wl,
                              !.was = IF JustBuilt(m) THEN last.was ELSE {},
                              !.hit = IF JustBuilt(m) THEN last.hit ELSE {}]
    /\ UNCHANGED <<now, refDelim, sameFs, store, mtime, orphans, log, toolVars>>

\* _processtime('w'), lines 268-290: create the reference file when it is
\* missing, then create the temporary file
SaveBegin(m) ==
    /\ mon[m].pc = "save"
    /\ store' = IF store.exists THEN store ELSE HeaderOnly(refDelim)
    /\ mon' = [mon EXCEPT ![m].pc = "temp", ![m].base = store',
                          ![m].tmp = EmptyFile]
    /\ UNCHANGED <<now, refDelim, sameFs, mtime, last, orphans, log, toolVars>>

\* a save that stamps the row with the modification time of the first file
\* the scan reported instead of the time of the save
SaveWriteFileTime(m) ==
    /\ mon[m].pc = "temp"
    /\ IF WriteErr(store) = "none"
       THEN /\ mon' = [mon EXCEPT ![m].pc = "move", ![m].cur_dt = now,
                         ![m].tmp = WriteFile(store, mon[m].path,
                                      Strftime(IF mon[m].mods = <<>> THEN now
                                               ELSE mtime[mon[m].mods[1]]))]
            /\ UNCHANGED <<last, orphans>>
       ELSE /\ mon' = [mon EXCEPT ![m].pc = "idle", ![m].mods = <<>>,
                         ![m].base = NoFile, ![m].tmp = NoFile]
            /\ last' = [last EXCEPT !.op = "modified_files", !.m = m,
                          !.path = mon[m].path, !.err = WriteErr(store),
                          !.at = "save", !.done = TRUE]
            /\ orphans' = orphans \cup {m}
    /\ UNCHANGED <<now, refDelim, sameFs, store, mtime, log, toolVars>>

\* _processtime('w'), lines 291-308: read the reference file and fill the
\* temporary file; an exception leaves modified_files at once
SaveWrite(m) ==
    /\ mon[m].pc = "temp"
    /\ IF WriteErr(store) = "none"
       THEN /\ mon' = [mon EXCEPT ![m].pc = "move", ![m].cur_dt = now,
                         ![m].tmp = WriteFile(store, mon[m].path, Strftime(now))]
            /\ UNCHANGED <<last, orphans>>
       ELSE /\ mon' = [mon EXCEPT ![m].pc = "idle", ![m].mods = <<>>,
                         ![m].base = NoFile, ![m].tmp = NoFile]
            /\ last' = [last EXCEPT !.op = "modified_files", !.m = m,
                          !.path = mon[m].path, !.err = WriteErr(store),
                          !.at = "save", !.done = TRUE]
            /\ orphans' = orphans \cup {m}
    /\ UNCHANGED <<now, refDelim, sameFs, store, mtime, log, toolVars>>

\* a move that adds the rows of the temporary file to the rows the reference
\* file holds at that moment instead of replacing the file
MoveRenameMerge(m) ==
    /\ mon[m].pc = "move"
    /\ sameFs
    /\ store' = [mon[m].tmp EXCEPT !.rows =
                   SelectSeq(store.rows,
                             LAMBDA r : ~HasRow(mon[m].tmp.rows, r.Path))
                   \o mon[m].tmp.rows]
    /\ mon' = [mon EXCEPT ![m].pc = "log"]
    /\ UNCHANGED <<now, refDelim, sameFs, mtime, last, orphans, log, toolVars>>

\* shutil.move, line 310, when os.rename succeeds: the temporary file
\* replaces the reference file in one step
MoveRename(m) ==
    /\ mon[m].pc = "move"
    /\ sameFs
    /\ store' = mon[m].tmp
    /\ mon' = [mon EXCEPT ![m].pc = "log"]
    /\ UNCHANGED <<now, refDelim, sameFs, mtime, last, orphans, log, toolVars>>

\* shutil.move when os.rename fails (another file system, or a platform
\* whose rename does not replace): the copy opens the reference file for
\* writing, which empties it.  The model follows the runs in which the
\* copies of two moves do not overlap.
CopyOpen(m) ==
    /\ mon[m].pc = "move"
    /\ ~sameFs
    /\ \A o \in Monitors \ {m} : mon[o].pc # "copy"
    /\ store' = EmptyFile
    /\ mon' = [mon EXCEPT ![m].pc = "copy", ![m].copied = 0, ![m].pre = store]
    /\ UNCHANGED <<now, refDelim, sameFs, mtime, last, orphans, log, toolVars>>

\* the copy writes the next line of the temporary file
CopyChunk(m) ==
    /\ mon[m].pc = "copy"
    /\ store' = WriteLine(store, mon[m].copied, mon[m].tmp)
    /\ mon' = [mon EXCEPT ![m].copied = @ + 1,
                 ![m].pc = IF mon[m].copied = Len(mon[m].tmp.rows)
                           THEN "unlink" ELSE "copy"]
    /\ UNCHANGED <<now, refDelim, sameFs, mtime, last, orphans, log, toolVars>>

\* the copy is complete: shutil.move removes the temporary file
CopyUnlink(m) ==
    /\ mon[m].pc = "unlink"
    /\ mon' = [mon EXCEPT ![m].pc = "log"]
    /\ UNCHANGED <<now, refDelim, sameFs, store, mtime, last,
                   orphans, log, toolVars>>

\* monitoring._writelog for every reported file
LogLinesAllRegular(m) ==
    LET all == SelectSeq(ListDir(mon[m].path),
                         LAMBDA f : IsFile(mon[m].path, f))
    IN  [i \in 1..Len(all) |->
            [path |-> mon[m].path, sec |-> Strftime(now).sec, file |-> all[i]]]

\* _writelog for each file of mod_files: one line with the path, the date and
\* time of the write, and the file name
LogLines(m) ==
    [i \in 1..Len(mon[m].mods) |->
        [path |-> mon[m].path, sec |-> Strftime(now).sec,
         file |-> mon[m].mods[i]]]

\* the files of the Monitor's directory written after its scan listed them
\* and no later than the time its save stored
LateIn(m) ==
    {f \in last.late : /\ IsFile(mon[m].path, f)
                       /\ ~mon[m].manual
                       /\ mtime[f] <= Strptime(Strftime(mon[m].cur_dt))}

\* a return that moves the cutoff of the Monitor to the time of the call
FinishAdvancesCutoff(m) ==
    /\ mon[m].pc = "log"
    /\ log' = IF mon[m].wl THEN log \o LogLines(m) ELSE log
    /\ last' = [last EXCEPT !.op = "modified_files", !.m = m,
                  !.path = mon[m].path, !.err = "none", !.at = "none",
                  !.done = TRUE, !.ret = mon[m].mods,
                  !.late = LateIn(m)]
    /\ mon' = [mon EXCEPT ![m].pc = "idle", ![m].mods = <<>>, ![m].wl = FALSE,
                 ![m].base = NoFile, ![m].tmp = NoFile, ![m].cur_dt = 0,
                 ![m].copied = 0, ![m].pre = NoFile, ![m].cutoff = now]
    /\ UNCHANGED <<now, refDelim, sameFs, store, mtime, orphans, toolVars>>

\* modified_files, lines 354-358: write the log and return the list
Finish(m) ==
    /\ mon[m].pc = "log"
    /\ log' = IF mon[m].wl THEN log \o LogLines(m) ELSE log
    /\ last' = [last EXCEPT !.op = "modified_files", !.m = m,
                  !.path = mon[m].path, !.err = "none", !.at = "none",
                  !.done = TRUE, !.ret = mon[m].mods,
                  !.late = LateIn(m)]
    /\ mon' = [mon EXCEPT ![m].pc = "idle", ![m].mods = <<>>, ![m].wl = FALSE,
                 ![m].base = NoFile, ![m].tmp = NoFile, ![m].cur_dt = 0,
                 ![m].copied = 0, ![m].pre = NoFile]
    /\ UNCHANGED <<now, refDelim, sameFs, store, mtime, orphans, toolVars>>

\* the process dies after it created the temporary file and before the
\* reference file has been replaced or copied over in full
Crash(m) ==
    /\ mon[m].pc \in {"temp", "move", "copy"}
    /\ mon' = [mon EXCEPT ![m] = [NoMon EXCEPT !.status = "crashed"]]
    /\ last' = [NoLast EXCEPT !.op = "crash", !.m = m, !.path = mon[m].path,
                              !.base = mon[m].base]
    /\ orphans' = orphans \cup {m}
    /\ UNCHANGED <<now, refDelim, sameFs, store, mtime, log, toolVars>>

\* the steps of modified_files after the scan
SaveSteps(m) ==
    \/ SaveBegin(m)
    \/ SaveWrite(m)
    \/ MoveRename(m)
    \/ CopyOpen(m)
    \/ CopyChunk(m)
    \/ CopyUnlink(m)
    \/ Finish(m)

\* a single writer: one process that builds a Monitor, uses it, discards it
\* and builds the next one, while the clock runs and files are written
NextSingle ==
    \/ Tick
    \/ \E f \in Touched : Touch(f)
    \/ \E p \in Paths, cfg \in ConfigArgs : Construct("m1", p, cfg)
    \/ \E s \in DtStrings : ChangeTime("m1", s)
    \/ \E wl \in {FALSE} : Scan("m1", wl)
    \/ SaveSteps("m1")
    \/ Crash("m1")

SpecSingle == Init /\ [][NextSingle]_vars

\* the directories a monitor can be built for
GoodPaths == {PA, PB}

\* monitors of separate processes share the reference file and run their
\* handlers side by side
NextShared ==
    \/ \E m \in Monitors :
          \/ \E p \in GoodPaths : Construct(m, p, "None")
          \/ \E wl \in {FALSE} : Scan(m, wl)
          \/ SaveSteps(m)

SpecShared == Init /\ [][NextShared]_vars

\* the times a caller hands to change_time while the audit log is watched
LogDtStrings == {Strftime(Epoch), Strftime(MaxTime)}

\* a modified_files call made while the audit log has room
ScanLogged(m, wl) ==
    /\ Len(log) < MaxLog
    /\ Scan(m, wl)

\* one process that scans with and without write_log, in automatic and in
\* manual mode, while the clock runs and files are written
NextLog ==
    \/ Tick
    \/ \E f \in Touched : Touch(f)
    \/ \E p \in GoodPaths : Construct("m1", p, "None")
    \/ \E s \in LogDtStrings : ChangeTime("m1", s)
    \/ \E wl \in BOOLEAN : ScanLogged("m1", wl)
    \/ SaveSteps("m1")

SpecLog == Init /\ [][NextLog]_vars

\* ------------------------------------------------- jsonstuff.reformat_json
RECURSIVE JsonWrite(_, _, _)

\* fnmatch.fnmatch(f, '*.json')
IsJsonName(f) == f[Len(f)] = ".json"

\* name_append in f
HasAppend(f) == \E i \in 1..Len(f) : f[i] = name_append

\* os.path.splitext(f)[0]
SplitExt(f) == IF f[Len(f)] \in {".json", ".txt"} THEN SubSeq(f, 1, Len(f) - 1)
               ELSE f

\* line 50: the name of the reformatted file
ReformatName(f) == SplitExt(f) \o <<name_append, ".json">>

\* os.path.join(path, f)
JoinPath(p, f) == p \o <<"/">> \o f

\* lines 32-33: a string becomes a list of one, anything but a list becomes
\* the empty list
FileList(arg) == IF arg.kind \in {"str", "list"} THEN arg.v ELSE <<>>

\* line 37: no file is named, so the directory is scanned
DirMode(arg) == Len(FileList(arg)) = 0

\* a test that lets every selected file be written again
NeedsWriteAlways(fs, f) == TRUE

\* line 54: the reformatted file is written only when it is not there yet
NeedsWrite(fs, f) == ReformatName(f) \notin fs

\* a selection that takes the named files without looking for them
JsonSelectUnchecked(fs, arg) ==
    IF DirMode(arg)
    THEN [err |-> "none",
          list |-> SelectSeq(JsonOrder,
                     LAMBDA f : f \in fs /\ IsJsonName(f) /\ ~HasAppend(f))]
    ELSE [err |-> "none", list |-> FileList(arg)]

\* lines 37-46: the files to reformat; a named file that is missing raises
JsonSelect(fs, arg) ==
    IF DirMode(arg)
    THEN [err |-> "none",
          list |-> SelectSeq(JsonOrder,
                     LAMBDA f : f \in fs /\ IsJsonName(f) /\ ~HasAppend(f))]
    ELSE IF \E i \in 1..Len(FileList(arg)) : FileList(arg)[i] \notin fs
    THEN [err |-> "FileNotFoundError", list |-> <<>>]
    ELSE [err |-> "none", list |-> FileList(arg)]

\* lines 48-61: the files are reformatted one after the other; a file that
\* cannot be opened or parsed ends the call with what was written before it
JsonWrite(list, fs, done) ==
    IF list = <<>> THEN [files |-> fs, ret |-> done, err |-> "none"]
    ELSE LET f == Head(list)
         IN  IF ~NeedsWrite(fs, f) THEN JsonWrite(Tail(list), fs, done)
             ELSE IF f \notin fs
             THEN [files |-> fs, ret |-> done, err |-> "FileNotFoundError"]
             ELSE IF ~ValidJson(f)
             THEN [files |-> fs, ret |-> done, err |-> "JSONDecodeError"]
             ELSE JsonWrite(Tail(list), fs \cup {ReformatName(f)},
                            Append(done, ReformatName(f)))

\* reformat_json(path, files) from the call to the return or the exception
JsonOutcome(fs, p, arg) ==
    IF ~IsDir(p) THEN [files |-> fs, ret |-> <<>>, err |-> "FileNotFoundError"]
    ELSE IF JsonSelect(fs, arg).err # "none"
    THEN [files |-> fs, ret |-> <<>>, err |-> JsonSelect(fs, arg).err]
    ELSE JsonWrite(JsonSelect(fs, arg).list, fs, <<>>)

ReformatJson(p, arg) ==
    /\ LET out == JsonOutcome(jsn.files, p, arg)
       IN  jsn' = [files |-> out.files, op |-> "reformat_json", path |-> p,
                   arg |-> arg, err |-> out.err,
                   ret |-> IF out.err = "none"
                           THEN [i \in 1..Len(out.ret) |-> JoinPath(p, out.ret[i])]
                           ELSE <<>>,
                   wrote |-> {out.ret[i] : i \in 1..Len(out.ret)},
                   before |-> jsn.files,
                   again |-> /\ DirMode(arg)
                             /\ jsn.op = "reformat_json"
                             /\ DirMode(jsn.arg)
                             /\ jsn.path = p
                             /\ IsDir(p)
                             /\ ~jsn.dirty,
                   prevErr |-> jsn.err, dirty |-> FALSE]
    /\ UNCHANGED <<fpVars, job, scr, tg, sh>>

\* another program puts a file into the directory
JsonCreate(f) ==
    /\ f \notin jsn.files
    /\ jsn' = [jsn EXCEPT !.files = @ \cup {f}, !.dirty = TRUE]
    /\ UNCHANGED <<fpVars, job, scr, tg, sh>>

\* another program removes a file from the directory
JsonDelete(f) ==
    /\ f \in jsn.files
    /\ jsn' = [jsn EXCEPT !.files = @ \ {f}, !.dirty = TRUE]
    /\ UNCHANGED <<fpVars, job, scr, tg, sh>>

NextJson ==
    \/ \E p \in {PJ, PX}, arg \in JsonArgs : ReformatJson(p, arg)
    \/ \E f \in JsonNames : JsonCreate(f)
    \/ \E f \in JsonNames : JsonDelete(f)

SpecJson == InitTools /\ [][NextJson]_vars

\* ------------------------------------------ notifications.SendTelegramMessage
\* the status code of a delivered message
HttpOk == 200

\* requests.post raises because no response arrives
NoResponse == 0

\* what comes back from requests.post: a response with a status code, or no
\* response
Responses == {HttpOk, 404, 500, NoResponse}

\* the chat_id argument: None or an ID
ChatArgs == {"None", "id"}

\* a test of the response that takes every status code for a success
TgDeliveredAnyStatus(resp) == TRUE

\* lines 36-41: the message counts as sent when the status code is 200
TgDelivered(resp) == resp = HttpOk

\* SendTelegramMessage(message, chat_id); resp is what the server does with
\* the request if one is posted
SendTelegramMessage(c, resp) ==
    /\ Len(tg.sent) < MaxPosts
    /\ LET call == [tg EXCEPT !.op = "send", !.arg = c, !.hadKey = tg.key,
                              !.hadChat = tg.chat, !.before = Len(tg.sent),
                              !.err = "none"]
           req == [chat |-> IF c = "None" THEN "env" ELSE "arg", resp |-> resp]
       IN  IF ~tg.key \/ (c = "None" /\ ~tg.chat)
           THEN tg' = [call EXCEPT !.ret = "False"]
           ELSE IF resp = NoResponse
           THEN tg' = [call EXCEPT !.sent = Append(tg.sent, req),
                                   !.ret = "none", !.err = "ConnectionError"]
           ELSE tg' = [call EXCEPT !.sent = Append(tg.sent, req),
                                   !.ret = IF TgDelivered(resp) THEN "True"
                                           ELSE "False"]
    /\ UNCHANGED <<fpVars, job, scr, jsn, sh>>

\* the environment variable TelegramAPIKeyRelease is set or removed
TgSetKey(b) ==
    /\ tg.key # b
    /\ tg' = [tg EXCEPT !.key = b]
    /\ UNCHANGED <<fpVars, job, scr, jsn, sh>>

\* the environment variable TelegramChatIDRelease is set or removed
TgSetChat(b) ==
    /\ tg.chat # b
    /\ tg' = [tg EXCEPT !.chat = b]
    /\ UNCHANGED <<fpVars, job, scr, jsn, sh>>

NextTelegram ==
    \/ \E c \in ChatArgs, resp \in Responses : SendTelegramMessage(c, resp)
    \/ \E b \in BOOLEAN : TgSetKey(b)
    \/ \E b \in BOOLEAN : TgSetChat(b)

SpecTelegram == InitTools /\ [][NextTelegram]_vars

\* ---------------------------------------------------------- cmd.run_script
\* os.path.isfile(os.path.join(script_path, script_name))
IsScript(p, n) == p \in {PS1, PS2} /\ n = "run.py"

\* the program_name argument: a string, or a value that is not a string
ProgArgs == {"python", "None"}

\* the parameters argument: None or a text
ParArgs == {"None", "--v"}

\* lines 46-48: the command line
CmdText(prog, n, par) ==
    (IF prog # "None" THEN <<prog, n>> ELSE <<n>>)
    \o (IF par # "None" THEN <<par>> ELSE <<>>)

\* a run_script that does not look for the script file
RunScriptNoFileCheck(prog, p, n, par) ==
    /\ sh.pc = "idle"
    /\ Len(sh.ran) < MaxRuns
    /\ LET call == [sh EXCEPT !.op = "run_script", !.prog = prog, !.path = p,
                              !.name = n, !.par = par, !.cwd0 = sh.cwd,
                              !.ran0 = Len(sh.ran), !.text = <<>>,
                              !.err = "none", !.ret = 0]
       IN  IF ~IsDir(p)
           THEN sh' = [call EXCEPT !.probes = <<"isdir">>,
                                   !.err = "FileNotFoundError"]
           ELSE sh' = [call EXCEPT !.probes = <<"isdir">>,
                                   !.text = CmdText(prog, n, par),
                                   !.pc = "chdir"]
    /\ UNCHANGED <<fpVars, job, scr, jsn, tg>>

\* run_script, lines 40-53: the two checks, then the command line
RunScript(prog, p, n, par) ==
    /\ sh.pc = "idle"
    /\ Len(sh.ran) < MaxRuns
    /\ LET call == [sh EXCEPT !.op = "run_script", !.prog = prog, !.path = p,
                              !.name = n, !.par = par, !.cwd0 = sh.cwd,
                              !.ran0 = Len(sh.ran), !.text = <<>>,
                              !.err = "none", !.ret = 0]
       IN  IF ~IsDir(p)
           THEN sh' = [call EXCEPT !.probes = <<"isdir">>,
                                   !.err = "FileNotFoundError"]
           ELSE IF ~IsScript(p, n)
           THEN sh' = [call EXCEPT !.probes = <<"isdir", "isfile">>,
                                   !.err = "FileNotFoundError"]
           ELSE sh' = [call EXCEPT !.probes = <<"isdir", "isfile">>,
                                   !.text = CmdText(prog, n, par),
                                   !.pc = "chdir"]
    /\ UNCHANGED <<fpVars, job, scr, jsn, tg>>

\* lines 54-55: os.getcwd, the function, never equals the path, so the
\* directory is changed in every call
ShChdir ==
    /\ sh.pc = "chdir"
    /\ sh' = [sh EXCEPT !.cwd = sh.path, !.pc = "system"]
    /\ UNCHANGED <<fpVars, job, scr, jsn, tg>>

\* lines 56-59: os.system runs the command and its value is returned
ShSystem(rc) ==
    /\ sh.pc = "system"
    /\ sh' = [sh EXCEPT !.ran = Append(sh.ran, [cwd |-> sh.cwd,
                                                  text |-> sh.text]),
                         !.ret = rc, !.pc = "idle"]
    /\ UNCHANGED <<fpVars, job, scr, jsn, tg>>

NextCmd ==
    \/ \E prog \in ProgArgs, p \in {PS1, PS2, PX, PF},
          n \in {"run.py", "gone.py"}, par \in ParArgs :
             RunScript(prog, p, n, par)
    \/ ShChdir
    \/ \E rc \in {0, 1} : ShSystem(rc)

SpecCmd == InitTools /\ [][NextCmd]_vars

\* ------------------------------------------------------------ db.run_job
\* the wait_for_completion argument: True, False, or a value that is not in
\* BOOLEANS
WaitArgs == {"True", "False", "other"}

\* line 141: a value that is not in BOOLEANS counts as False
NormalWait(w) == IF w \in {"True", "False"} THEN w = "True" ELSE FALSE

\* db(connection_string): the object has an engine when a connection string
\* is given
DbInit(cs) ==
    /\ job.pc = "idle"
    /\ job' = [NoJob EXCEPT !.engine = cs, !.srv = job.srv]
    /\ UNCHANGED <<fpVars, scr, jsn, tg, sh>>

\* run_job, lines 136-146: without an engine raise TypeError, else start the
\* job on the server and set is_running
RunJob(j, w) ==
    /\ job.pc = "idle"
    /\ IF ~job.engine
       THEN job' = [job EXCEPT !.name = j, !.arg = w, !.wait = FALSE,
                               !.started = FALSE,
                               !.is_running = FALSE, !.polled = <<>>,
                               !.ret = "none", !.err = "TypeError"]
       ELSE job' = [job EXCEPT !.name = j, !.arg = w, !.wait = NormalWait(w),
                               !.started = TRUE, !.srv[j] = "running",
                               !.is_running = TRUE, !.polled = <<>>,
                               !.ret = "none", !.err = "none",
                               !.pc = IF NormalWait(w) THEN "loop" ELSE "return"]
    /\ UNCHANGED <<fpVars, scr, jsn, tg, sh>>

\* _is_job_running(job_name): what the server reports for the job
IsJobRunning(j) == job.srv[j] = "running"

\* lines 148-150, a turn of the loop taken with `if` in place of `while`:
\* the loop is left after the first poll whatever it reported
JobPollOnce ==
    /\ job.pc = "loop"
    /\ job.is_running
    /\ Len(job.polled) < MaxPolls
    /\ job' = [job EXCEPT !.is_running = IsJobRunning(job.name),
                           !.polled = Append(job.polled, IsJobRunning(job.name)),
                           !.pc = "return"]
    /\ UNCHANGED <<fpVars, scr, jsn, tg, sh>>

\* lines 148-150, one turn of the loop: sleep five seconds, then ask the
\* server with _is_job_running
JobPoll ==
    /\ job.pc = "loop"
    /\ job.is_running
    /\ Len(job.polled) < MaxPolls
    /\ job' = [job EXCEPT !.is_running = IsJobRunning(job.name),
                           !.polled = Append(job.polled, IsJobRunning(job.name))]
    /\ UNCHANGED <<fpVars, scr, jsn, tg, sh>>

\* lines 148 and 151: the loop condition is false
JobLoopExit ==
    /\ job.pc = "loop"
    /\ ~job.is_running
    /\ job' = [job EXCEPT !.pc = "return"]
    /\ UNCHANGED <<fpVars, scr, jsn, tg, sh>>

\* line 153: return is_running
JobReturn ==
    /\ job.pc = "return"
    /\ job' = [job EXCEPT !.pc = "idle",
                           !.ret = IF job.is_running THEN "True" ELSE "False"]
    /\ UNCHANGED <<fpVars, scr, jsn, tg, sh>>

\* the job comes to its end on the server
JobCompletes(j) ==
    /\ job.srv[j] = "running"
    /\ job' = [job EXCEPT !.srv[j] = "idle"]
    /\ UNCHANGED <<fpVars, scr, jsn, tg, sh>>

NextJob ==
    \/ \E cs \in BOOLEAN : DbInit(cs)
    \/ \E j \in Jobs, w \in WaitArgs : RunJob(j, w)
    \/ JobPoll
    \/ JobLoopExit
    \/ JobReturn
    \/ \E j \in Jobs : JobCompletes(j)

SpecJob == InitTools /\ [][NextJob]_vars

\* ---------------------------------------------------- db.script_objects
\* the root_path arguments: an existing directory and a path that is none
RootArgs == {PA, PX}

\* what subprocess.run(...).returncode can be
ReturnCodes == {0, 1}

\* script_objects, lines 180-197: the root_path check, the version command
\* (run through the shell, so it raises nothing), the removal of an output
\* directory that exists, ct = 0
ScriptObjects(root, d) ==
    /\ scr.pc = "idle"
    /\ LET out == JoinPath(root, d)
           call == [NoScr EXCEPT !.dirs = scr.dirs, !.op = "script_objects",
                                 !.root = root, !.database = d, !.out = out]
       IN  IF ~IsDir(root)
           THEN scr' = [call EXCEPT !.err = "FileNotFoundError"]
           ELSE scr' = [call EXCEPT !.dirs = scr.dirs \ {out},
                                    !.removed = out \in scr.dirs,
                                    !.pc = "mkdir"]
    /\ UNCHANGED <<fpVars, job, jsn, tg, sh>>

\* a loop that gives up one failure later, on ct == 11
ScrMkdirOneMore(ok) ==
    /\ scr.pc = "mkdir"
    /\ IF scr.out \in scr.dirs
       THEN scr' = [scr EXCEPT !.tries = @ + 1, !.err = "FileExistsError",
                               !.pc = "idle"]
       ELSE IF ok
       THEN scr' = [scr EXCEPT !.tries = @ + 1, !.made = TRUE,
                               !.dirs = @ \cup {scr.out}, !.pc = "run"]
       ELSE IF scr.ct + 1 = MaxMkdir + 1
       THEN scr' = [scr EXCEPT !.tries = @ + 1, !.ct = @ + 1,
                               !.err = "PermissionError", !.pc = "idle"]
       ELSE scr' = [scr EXCEPT !.tries = @ + 1, !.ct = @ + 1]
    /\ UNCHANGED <<fpVars, job, jsn, tg, sh>>

\* lines 198-209, one turn of the loop: os.mkdir succeeds and the loop is
\* left, or it raises PermissionError, which is counted and, at the tenth,
\* raised; any other exception of os.mkdir leaves the function
ScrMkdir(ok) ==
    /\ scr.pc = "mkdir"
    /\ IF scr.out \in scr.dirs
       THEN scr' = [scr EXCEPT !.tries = @ + 1, !.err = "FileExistsError",
                               !.pc = "idle"]
       ELSE IF ok
       THEN scr' = [scr EXCEPT !.tries = @ + 1, !.made = TRUE,
                               !.dirs = @ \cup {scr.out}, !.pc = "run"]
       ELSE IF scr.ct + 1 = MaxMkdir
       THEN scr' = [scr EXCEPT !.tries = @ + 1, !.ct = @ + 1,
                               !.err = "PermissionError", !.pc = "idle"]
       ELSE scr' = [scr EXCEPT !.tries = @ + 1, !.ct = @ + 1]
    /\ UNCHANGED <<fpVars, job, jsn, tg, sh>>

\* lines 211-221: the scripting command is run and its return code returned
ScrRun(rc) ==
    /\ scr.pc = "run"
    /\ scr' = [scr EXCEPT !.ran = @ + 1, !.ret = rc, !.pc = "idle"]
    /\ UNCHANGED <<fpVars, job, jsn, tg, sh>>

\* another process creates a directory of a database under the root
ScrOtherMkdir(d) ==
    /\ JoinPath(PA, d) \notin scr.dirs
    /\ scr' = [scr EXCEPT !.dirs = @ \cup {JoinPath(PA, d)}]
    /\ UNCHANGED <<fpVars, job, jsn, tg, sh>>

NextScript ==
    \/ \E root \in RootArgs, d \in Databases : ScriptObjects(root, d)
    \/ \E ok \in BOOLEAN : ScrMkdir(ok)
    \/ \E rc \in ReturnCodes : ScrRun(rc)
    \/ \E d \in Databases : ScrOtherMkdir(d)

SpecScript == InitTools /\ [][NextScript]_vars

\* ------------------------------------------------------------------ claims
\* the save of a modified_files call of monitor m has been moved into place
Saved(m) == mon[m].pc = "log" /\ ~mon[m].manual

\* C1: in automatic mode the second of two consecutive modified_files calls
\* of one Monitor, with no file written in between, returns an empty list.
C1_SecondScanEmpty ==
    ( /\ last.op = "modified_files"
      /\ last.done
      /\ last.err = "none"
      /\ last.again
      /\ ~last.dirty
      /\ ~mon[last.m].manual )
    => last.ret = <<>>

\* C2: change_time with a text that is not a timestamp fails with a format
\* error and changes neither the cutoff nor the manual flag.
C2_MalformedRejected ==
    [][ ( /\ last' # last
          /\ last'.op = "change_time"
          /\ last'.dts.kind = "text" )
        => (last'.err # "none" /\ mon' = mon) ]_vars

\* C3 as stated: the construction of a Monitor whose path contains the
\* delimiter fails with RuntimeError, whether or not the path exists (here
\* even setting aside the constructions that fail before _validate).
C3_AlwaysRuntimeError ==
    ( /\ last.op = "init"
      /\ Contains(last.path, refDelim)
      /\ last.at \notin {"config", "load"} )
    => last.err = "RuntimeError"

\* C3 amended: the construction of a Monitor whose path contains the
\* delimiter always fails; when it gets as far as _validate the error is
\* RuntimeError for an existing directory and FileNotFoundError for a path
\* that is not one, and RuntimeError is raised in no other case.
C3_DelimiterPathFails ==
    (last.op = "init" /\ Contains(last.path, refDelim))
    => /\ last.err # "none"
       /\ last.at = "validate" =>
             last.err = IF IsDir(last.path) THEN "RuntimeError"
                        ELSE "FileNotFoundError"
       /\ last.err = "RuntimeError" => (last.at = "validate" /\ IsDir(last.path))

C3_Witness ==
    /\ last.op = "init"
    /\ Contains(last.path, refDelim)
    /\ ~IsDir(last.path)
    /\ last.read
    /\ last.err = "FileNotFoundError"

\* C4: after a save of path p at time t a load of p returns t cut to whole
\* seconds, whatever other rows the file holds.
C4_SaveThenLoad ==
    \A m \in Monitors :
        Saved(m) =>
            /\ ReadErr(store, mon[m].path) = "none"
            /\ ReadVal(store, mon[m].path)
                 = mon[m].cur_dt - (mon[m].cur_dt % TicksPerSec)

C4_Witness ==
    \E m \in Monitors :
        /\ Saved(m)
        /\ mon[m].cur_dt % TicksPerSec # 0
        /\ Len(store.rows) = 2

RowCount(rows, p) == Cardinality({i \in 1..Len(rows) : rows[i].Path = p})

\* C6: a save for a path without a row adds exactly one row, for that path,
\* and every row the file held before is still there, path and time.
C6_NewPathAppends ==
    \A m \in Monitors :
        (Saved(m) /\ ~HasRow(mon[m].base.rows, mon[m].path)) =>
            /\ Len(store.rows) = Len(mon[m].base.rows) + 1
            /\ RowCount(store.rows, mon[m].path) = 1
            /\ \A i \in 1..Len(mon[m].base.rows) :
                  \E j \in 1..Len(store.rows) : store.rows[j] = mon[m].base.rows[i]

C6_Witness ==
    \E m \in Monitors :
        /\ Saved(m)
        /\ mon[m].base.rows # <<>>
        /\ ~HasRow(mon[m].base.rows, mon[m].path)
        /\ Len(store.rows) = 2

\* C7: a save for a path that has a row changes the time of that row only:
\* the number of rows is the same and the rows of the other paths keep
\* their times.
C7_UpdateInPlace ==
    \A m \in Monitors :
        (Saved(m) /\ HasRow(mon[m].base.rows, mon[m].path)) =>
            /\ Len(store.rows) = Len(mon[m].base.rows)
            /\ \A i \in 1..Len(mon[m].base.rows) :
                  /\ store.rows[i].Path = mon[m].base.rows[i].Path
                  /\ mon[m].base.rows[i].Path # mon[m].path =>
                        store.rows[i] = mon[m].base.rows[i]

C7_Witness ==
    \E m \in Monitors :
        /\ Saved(m)
        /\ HasRow(mon[m].base.rows, mon[m].path)
        /\ Len(mon[m].base.rows) = 2
        /\ store.rows # mon[m].base.rows

\* C8: from a header-only file on, whatever the single writer does, the
\* reference file never holds two rows for one path.
C8_OneRowPerPath ==
    \A i, j \in 1..Len(store.rows) :
        store.rows[i].Path = store.rows[j].Path => i = j

C8_Witness ==
    /\ Len(store.rows) = 2
    /\ last.op = "modified_files"
    /\ last.done
    /\ last.err = "none"
    /\ store.rows[1].LastMonitorTime.sec > 0

\* C9: when a save is cut short between the creation of the temporary file
\* and the end of the move, the reference file holds the rows it held when
\* the save began.
C9_CrashKeepsStore ==
    last.op = "crash" => store.rows = last.base.rows

\* C10: a load that runs while another Monitor moves its save into place
\* reads all the rows of before the move or all the rows of after it.
C10_LoadSeesWholeStore ==
    [][ ( /\ last' # last
          /\ last'.op = "init"
          /\ last'.read )
        => \A w \in Monitors \ {last'.m} :
              mon[w].pc = "copy" =>
                  store.rows \in {mon[w].pre.rows, mon[w].tmp.rows} ]_vars

\* C11: two Monitors for different paths share the reference file and each
\* fills its temporary file before the row of the other is in the reference
\* file: once both saves are moved into place the file lacks the row of one
\* of the two paths.
C11_InterleavedSavesLoseOne ==
    \A m \in Monitors, o \in Monitors :
        ( /\ m # o
          /\ Saved(m)
          /\ Saved(o)
          /\ mon[m].path # mon[o].path
          /\ ~HasRow(mon[m].tmp.rows, mon[o].path)
          /\ ~HasRow(mon[o].tmp.rows, mon[m].path) )
        => ~(HasRow(store.rows, mon[m].path) /\ HasRow(store.rows, mon[o].path))

C11_Witness ==
    \E m \in Monitors, o \in Monitors :
        /\ m # o
        /\ Saved(m)
        /\ Saved(o)
        /\ mon[m].path # mon[o].path
        /\ ~HasRow(mon[m].tmp.rows, mon[o].path)
        /\ ~HasRow(mon[o].tmp.rows, mon[m].path)
        /\ HasRow(store.rows, mon[m].path)
        /\ ~HasRow(store.rows, mon[o].path)

\* C12: a change_time call sets manual_review; from then on the Monitor keeps
\* it set until the object is replaced by a newly constructed one, and no step
\* of the Monitor changes the rows of the reference file.
C12_ManualOverrideSticks ==
    [][ \A m \in Monitors :
          /\ (last' # last /\ last'.op = "change_time" /\ last'.m = m)
                => mon'[m].manual
          /\ (mon[m].manual /\ mon'[m] # mon[m])
                => /\ store'.rows = store.rows
                   /\ mon'[m].manual \/ (last' # last /\ last'.op = "init") ]_vars

C12_Witness ==
    /\ last.op = "modified_files"
    /\ last.done
    /\ last.err = "none"
    /\ mon[last.m].manual
    /\ last.ret # <<>>
    /\ store.rows # <<>>
    /\ \A i \in 1..Len(store.rows) :
           store.rows[i].LastMonitorTime # Strftime(now)

\* C13: with the cutoff set by hand, a modified_files call that follows
\* another one of the same Monitor, no file having been written since the
\* first began, returns the list the first returned.
C13_ManualScanRepeats ==
    ( /\ last.op = "modified_files"
      /\ last.done
      /\ last.err = "none"
      /\ last.again
      /\ ~last.dirty
      /\ mon[last.m].manual )
    => last.ret = last.prev

C13_Witness ==
    /\ last.op = "modified_files"
    /\ last.done
    /\ last.err = "none"
    /\ last.again
    /\ ~last.dirty
    /\ mon[last.m].manual
    /\ last.ret # <<>>
    /\ last.ret = last.prev
    /\ now > mon[last.m].cutoff

\* the names a sequence holds
Names(seq) == {seq[i] : i \in 1..Len(seq)}

\* C14: the scan of modified_files collects each regular file directly under
\* the Monitor's path whose modification time is strictly greater than the
\* cutoff, once, and nothing else: not a file whose time equals the cutoff,
\* not the subdirectory, not the file inside the subdirectory.
C14_StrictlyNewerRegularFiles ==
    [][ \A m \in Monitors :
          (mon[m].pc = "idle" /\ mon'[m].pc \in {"save", "log"})
          => LET ret == mon'[m].mods
                 p == mon[m].path
             IN  /\ \A f \in Files :
                       f \in Names(ret)
                         <=> /\ \E i \in 1..Len(ListDir(p)) : ListDir(p)[i] = f
                             /\ mtime[f] > mon[m].cutoff
                 /\ "sub" \notin Names(ret)
                 /\ "f3" \notin Names(ret)
                 /\ Names(ret) \subseteq Files
                 /\ Cardinality(Names(ret)) = Len(ret) ]_vars

C14_Witness ==
    \E m \in Monitors :
        /\ mon[m].pc \in {"save", "log"}
        /\ ~last.dirty
        /\ mon[m].path = PA
        /\ mon[m].cutoff > Epoch
        /\ mtime["f1"] = mon[m].cutoff
        /\ "f1" \notin Names(mon[m].mods)

\* C15: when the save of an automatic modified_files call on path p is in
\* place, every row of p in the reference file holds the text of the clock
\* reading the call took, cut to the second, whatever files the scan reported
\* and also when it reported none.
C15_RecordHoldsScanTime ==
    \A m \in Monitors :
        Saved(m) =>
            /\ HasRow(store.rows, mon[m].path)
            /\ \A i \in 1..Len(store.rows) :
                   store.rows[i].Path = mon[m].path
                   => /\ store.rows[i].LastMonitorTime.kind = "ts"
                      /\ store.rows[i].LastMonitorTime.sec * TicksPerSec
                            <= mon[m].cur_dt
                      /\ mon[m].cur_dt
                            < (store.rows[i].LastMonitorTime.sec + 1) * TicksPerSec
                      /\ mon[m].cur_dt <= now

C15_Witness ==
    \E m \in Monitors :
        /\ Saved(m)
        /\ mon[m].mods # <<>>
        /\ \A i \in 1..Len(mon[m].mods) :
               Strftime(mtime[mon[m].mods[i]]).sec # Strftime(mon[m].cur_dt).sec
        /\ \E i \in 1..Len(store.rows) :
               /\ store.rows[i].Path = mon[m].path
               /\ store.rows[i].LastMonitorTime = Strftime(mon[m].cur_dt)

\* C16: an automatic scan of path p has reported a file and returned; a
\* Monitor is then constructed for p, loads the time that scan stored (a time
\* after the epoch) and scans, no file having been written since the first
\* scan began: the second scan reports no file.
C16_NewMonitorScanEmpty ==
    ( /\ last.op = "modified_files"
      /\ last.done
      /\ last.err = "none"
      /\ last.fresh
      /\ ~last.dirty
      /\ last.prev # <<>>
      /\ mon[last.m].cutoff > Epoch )
    => last.ret = <<>>

\* C17: a Monitor is constructed with the default configuration for a valid
\* directory while the reference file does not exist: the file is created
\* with the header row only, the construction succeeds and the cutoff of the
\* new Monitor is the epoch.
C17_MissingStoreCreated ==
    [][ ( /\ last' # last
          /\ last'.op = "init"
          /\ last'.cfg = "None"
          /\ ~store.exists
          /\ IsDir(last'.path)
          /\ ~Contains(last'.path, refDelim) )
        => /\ store' = HeaderOnly(refDelim)
           /\ last'.err = "none"
           /\ mon'[last'.m].status = "live"
           /\ mon'[last'.m].path = last'.path
           /\ mon'[last'.m].cutoff = Epoch ]_vars

\* C18: a construction that fails in the validation of the path has not read
\* the reference file, and every Monitor that exists has a valid path.
C18_ValidateBeforeStore ==
    /\ (last.op = "init" /\ last.at = "validate") => ~last.read
    /\ \A m \in Monitors :
          mon[m].status = "live" => Validate(mon[m].path, refDelim) = "none"

\* C19: a construction for a path that is not an existing directory fails
\* with FileNotFoundError; a construction that succeeds leaves manual_review
\* false and the cutoff equal to what the reference file holds for the path.
C19_NotADirectoryFails ==
    /\ (last.op = "init" /\ ~IsDir(last.path))
          => last.err = "FileNotFoundError"
    /\ (last.op = "init" /\ last.err = "none")
          => /\ ~mon[last.m].manual
             /\ mon[last.m].cutoff = ReadVal(store, last.path)

\* C20: a modified_files call with write_log true appends to the audit log
\* one record for each name it returns, in order, and nothing else; a call
\* with write_log false appends nothing; no step changes or removes a record
\* the log already holds.
C20_OneLogRecordPerFile ==
    [][ /\ Len(log') >= Len(log)
        /\ SubSeq(log', 1, Len(log)) = log
        /\ \A m \in Monitors :
              (mon[m].pc = "log" /\ mon'[m].pc = "idle")
              => IF mon[m].wl
                 THEN /\ Len(log') = Len(log) + Len(last'.ret)
                      /\ \A i \in 1..Len(last'.ret) :
                            /\ log'[Len(log) + i].file = last'.ret[i]
                            /\ log'[Len(log) + i].path = mon[m].path
                 ELSE log' = log
        /\ (\A m \in Monitors : ~(mon[m].pc = "log" /\ mon'[m].pc = "idle"))
              => log' = log ]_vars

C20_Witness ==
    /\ last.op = "modified_files"
    /\ last.done
    /\ last.err = "none"
    /\ last.wl
    /\ last.ret # <<>>
    /\ Len(last.ret) < Cardinality({f \in Files : IsFile(last.path, f)})
    /\ Len(log) > Len(last.ret)
    /\ \A i \in 1..Len(last.ret) :
           log[Len(log) - Len(last.ret) + i].file = last.ret[i]

\* C21: in an automatic modified_files call with write_log true that found
\* files, the reference file still holds the rows the call found there at the
\* moment the audit-log records of the call are about to be written: the
\* cutoff is not persisted before the records are in the log.
C21_LogBeforePersist ==
    \A m \in Monitors :
        ( /\ mon[m].pc = "log"
          /\ mon[m].wl
          /\ ~mon[m].manual
          /\ mon[m].mods # <<>> )
        => store.rows = mon[m].base.rows

\* C22: a construction raises FileNotFoundError for its config_file argument
\* only when that file does not exist, and a construction with an existing
\* regular configuration file for a valid directory, the reference file
\* being there, succeeds.
C22_ExistingConfigAccepted ==
    /\ (last.op = "init" /\ last.at = "config") => last.cfg = "absent"
    /\ ( /\ last.op = "init"
         /\ last.cfg = "file"
         /\ store.exists
         /\ Validate(last.path, refDelim) = "none" )
       => last.err = "none"

\* C23: run_job without waiting returns True right after the start of the job
\* and has polled nothing; with waiting it polls as long as the last poll
\* reported the job running, polls no more once a poll reported it not
\* running, and returns False only then.
C23_RunJobWaits ==
    [][ /\ (job.pc = "return" /\ job'.pc = "idle" /\ ~job.wait)
            => (job'.ret = "True" /\ job.polled = <<>> /\ job.started)
        /\ (job.pc = "loop" /\ job'.polled # job.polled)
            => job'.polled = Append(job.polled, job.srv[job.name] = "running")
        /\ (job.pc = "return" /\ job'.pc = "idle" /\ job.wait)
            => /\ job'.ret = "False"
               /\ job.started
               /\ job.polled # <<>>
               /\ \A i \in 1..Len(job.polled) :
                     job.polled[i] <=> i < Len(job.polled)
        /\ (job.wait /\ job.pc = "loop" /\ job'.pc # "loop")
            => (job.polled # <<>> /\ ~job.polled[Len(job.polled)])
        /\ (job.polled # <<>> /\ ~job.polled[Len(job.polled)])
            => (job'.polled = job.polled \/ job.pc = "idle") ]_vars

C23_Witness ==
    /\ job.pc = "idle"
    /\ job.wait
    /\ job.ret = "False"
    /\ Len(job.polled) >= 3
    /\ job.polled[1]
    /\ job.polled[2]

\* C24: every file a reformat_json call writes is the '_reformat' file of a
\* selected file and was not there before the call, a directory scan selects
\* no name that holds '_reformat', and a second directory scan of the same
\* directory, nothing else having changed the directory, writes no file and
\* returns an empty list.
C24_SecondCallEmpty ==
    /\ jsn.wrote \cap jsn.before = {}
    /\ \A f \in jsn.wrote : HasAppend(f)
    /\ (jsn.op = "reformat_json" /\ DirMode(jsn.arg))
          => \A f \in jsn.wrote :
                \E g \in jsn.before : ~HasAppend(g) /\ ReformatName(g) = f
    /\ (jsn.op = "reformat_json" /\ jsn.again /\ ~jsn.dirty)
          => (jsn.wrote = {} /\ jsn.err = "none" /\ jsn.ret = <<>>)

\* C24 as it holds: as above, and the second directory scan writes no file;
\* it returns an empty list when the first scan returned and raises the
\* error of the first scan when that one raised.
C24_SecondCallWritesNothing ==
    /\ jsn.wrote \cap jsn.before = {}
    /\ \A f \in jsn.wrote : HasAppend(f)
    /\ (jsn.op = "reformat_json" /\ DirMode(jsn.arg))
          => \A f \in jsn.wrote :
                \E g \in jsn.before : ~HasAppend(g) /\ ReformatName(g) = f
    /\ (jsn.op = "reformat_json" /\ jsn.again /\ ~jsn.dirty)
          => /\ jsn.wrote = {}
             /\ jsn.files = jsn.before
             /\ jsn.err = jsn.prevErr
             /\ jsn.ret = <<>>

C24_Witness ==
    /\ jsn.op = "reformat_json"
    /\ jsn.again
    /\ ~jsn.dirty
    /\ jsn.prevErr = "none"
    /\ jsn.err = "none"
    /\ jsn.ret = <<>>
    /\ {JAR, JBR} \subseteq jsn.files
    /\ {JA, JB} \subseteq jsn.files

\* C30: a reformat_json call that names files of which at least one is not
\* in the directory raises FileNotFoundError and has written no file, also
\* when the missing file is named after files that are there.
C30_MissingFileRaisesFirst ==
    ( /\ jsn.op = "reformat_json"
      /\ IsDir(jsn.path)
      /\ ~DirMode(jsn.arg)
      /\ \E i \in 1..Len(jsn.arg.v) : jsn.arg.v[i] \notin jsn.before )
    => /\ jsn.err = "FileNotFoundError"
       /\ jsn.wrote = {}
       /\ jsn.ret = <<>>
       /\ ~jsn.dirty => jsn.files = jsn.before

C30_Witness ==
    /\ jsn.op = "reformat_json"
    /\ jsn.path = PJ
    /\ jsn.arg = [kind |-> "list", v |-> <<JA, JX>>]
    /\ JA \in jsn.before
    /\ JAR \notin jsn.before
    /\ jsn.err = "FileNotFoundError"
    /\ JAR \notin jsn.files

\* C25: SendTelegramMessage returns True exactly when it posted one request
\* and the response had status 200; when the API key variable is missing, or
\* no chat_id is passed and the chat ID variable is missing, it returns False
\* and has posted nothing.
C25_TrueOnlyOn200 ==
    tg.op = "send" =>
        /\ tg.ret = "True"
             <=> /\ Len(tg.sent) = tg.before + 1
                 /\ tg.sent[Len(tg.sent)].resp = HttpOk
        /\ (~tg.hadKey \/ (tg.arg = "None" /\ ~tg.hadChat))
             => (tg.ret = "False" /\ Len(tg.sent) = tg.before)
        /\ Len(tg.sent) \in {tg.before, tg.before + 1}

C25_Witness ==
    /\ tg.op = "send"
    /\ tg.ret = "False"
    /\ tg.before = 1
    /\ Len(tg.sent) = 2
    /\ tg.sent[1].resp = HttpOk
    /\ tg.sent[2].resp = 404
    /\ tg.sent[2].chat = "env"

\* C26: run_script raises FileNotFoundError when script_path is not a
\* directory, having looked only at the directory, and when the script file
\* is not in script_path; in both cases the working directory is the one the
\* call found and nothing was executed. When both checks pass it first
\* changes to script_path and then executes the command line once.
C26_RunScriptChecksFirst ==
    sh.op = "run_script" =>
        /\ ~IsDir(sh.path)
             => /\ sh.err = "FileNotFoundError"
                /\ sh.probes = <<"isdir">>
        /\ (IsDir(sh.path) /\ ~IsScript(sh.path, sh.name))
             => sh.err = "FileNotFoundError"
        /\ sh.err = "FileNotFoundError"
             => /\ sh.pc = "idle"
                /\ sh.cwd = sh.cwd0
                /\ Len(sh.ran) = sh.ran0
        /\ (IsDir(sh.path) /\ IsScript(sh.path, sh.name))
             => /\ sh.err = "none"
                /\ sh.pc = "chdir" => (sh.cwd = sh.cwd0 /\ Len(sh.ran) = sh.ran0)
                /\ sh.pc = "system" => (sh.cwd = sh.path /\ Len(sh.ran) = sh.ran0)
                /\ sh.pc = "idle"
                     => /\ sh.cwd = sh.path
                        /\ Len(sh.ran) = sh.ran0 + 1
                        /\ sh.ran[Len(sh.ran)] =
                             [cwd |-> sh.path,
                              text |-> CmdText(sh.prog, sh.name, sh.par)]

C26_Witness ==
    /\ sh.op = "run_script"
    /\ sh.pc = "idle"
    /\ sh.err = "FileNotFoundError"
    /\ IsDir(sh.path)
    /\ sh.name = "gone.py"
    /\ sh.ran0 = 1
    /\ sh.cwd0 # sh.path
    /\ sh.cwd = sh.cwd0

\* C27: a file was written after an automatic scan had listed the directory
\* and no later than the time that scan stored, and not again since; a
\* Monitor constructed afterwards has scanned: the file was returned neither
\* by the first scan nor by this one.
C27_LateChangeMissed ==
    (last.op = "modified_files" /\ last.done /\ last.err = "none")
    => \A f \in last.was : f \notin last.hit /\ f \notin Names(last.ret)

\* C27 as it holds: such a file is not returned by the scan of the Monitor
\* constructed afterwards.
C27_LateChangeNotInNextScan ==
    (last.op = "modified_files" /\ last.done /\ last.err = "none")
    => \A f \in last.was : f \notin Names(last.ret)

C27_Witness ==
    /\ last.op = "modified_files"
    /\ last.done
    /\ last.err = "none"
    /\ last.auto
    /\ "f1" \in last.was
    /\ "f1" \notin last.hit
    /\ "f1" \notin Names(last.ret)

\* C28: the reference file carries the header row written with the configured
\* delimiter, whichever of the permitted delimiters that is, and an automatic
\* modified_files call has returned: the load of its Monitor and its save
\* raised nothing.
C28_StoreUsesConfiguredDelimiter ==
    ( /\ last.op = "modified_files"
      /\ last.done
      /\ last.auto
      /\ store.exists
      /\ store.hdr = HeaderRow(refDelim) )
    => last.err = "none"

\* C29: script_objects tries os.mkdir again after each PermissionError, so
\* inside the loop every attempt made so far has failed; it raises
\* PermissionError exactly when the tenth attempt in a row has failed; no
\* call makes more than ten attempts; and the scripting command has run, at
\* most once, only in a call in which an attempt succeeded.
C29_MkdirRetriesTenTimes ==
    /\ scr.tries <= MaxMkdir
    /\ scr.pc = "mkdir" => (scr.tries = scr.ct /\ scr.ct < MaxMkdir)
    /\ scr.err = "PermissionError"
          <=> (scr.pc = "idle" /\ scr.ct = MaxMkdir /\ scr.tries = MaxMkdir)
    /\ scr.err = "PermissionError" => (~scr.made /\ scr.ran = 0)
    /\ scr.ran <= 1
    /\ scr.ran = 1 => (scr.made /\ scr.tries = scr.ct + 1)
    /\ scr.pc = "run" => scr.made

C29_Witness ==
    /\ scr.op = "script_objects"
    /\ scr.pc = "idle"
    /\ scr.err = "PermissionError"
    /\ scr.tries = MaxMkdir
    /\ scr.ran = 0
====
